---- MODULE Spec2Model ----
(***************************************************************************)
(* NbsReader (src/src/main.rs): a one-shot converter that decodes a        *)
(* version-5 NBS song file into output.json.  The model follows parse()    *)
(* and handle_version_5() read by read over a byte file, and               *)
(* normalize_tick() in IEEE-754 single precision.                          *)
(***************************************************************************)
EXTENDS Integers, Sequences, FiniteSets, TLC

(***************************************************************************)
(* Bounds of the explored inputs.                                          *)
(***************************************************************************)
\* nonzero tick jumps a generated file may hold
MaxTicks == 2
\* nonzero layer jumps a generated tick may hold
MaxNotes == 3
\* largest layer_count a generated header declares
MaxLayers == 2
\* largest custom_instrument_count a generated file declares
MaxInstruments == 1
\* longest string payload generated for song_name
MaxStrLen == 2
\* normalize_tick is tabulated on 0..NormSmall besides the named inputs
NormSmall == 12

U16 == 65536

(***************************************************************************)
(* Little-endian integers: <int>::to_le_bytes / from_le_bytes.             *)
(***************************************************************************)
RECURSIVE to_le_bytes(_, _)
to_le_bytes(v, w) ==
    IF w = 0 THEN << >> ELSE << v % 256 >> \o to_le_bytes(v \div 256, w - 1)

RECURSIVE from_le_bytes(_)
from_le_bytes(bytes) ==
    IF bytes = << >> THEN 0 ELSE Head(bytes) + 256 * from_le_bytes(Tail(bytes))

\* i16::from_le_bytes: the two bytes' value read as two's complement
as_i16(u) == IF u >= 32768 THEN u - U16 ELSE u

\* u16::wrapping_add
wrapping_add(a, b) == (a + b) % U16

(***************************************************************************)
(* String::from_utf8: well-formed UTF-8 (Unicode table 3-7).               *)
(***************************************************************************)
IsCont(b) == b >= 128 /\ b <= 191

RECURSIVE from_utf8_ok(_)
from_utf8_ok(s) ==
    IF s = << >> THEN TRUE
    ELSE LET b == s[1] n == Len(s) IN
         IF b <= 127 THEN from_utf8_ok(Tail(s))
         ELSE IF b >= 194 /\ b <= 223 THEN
              n >= 2 /\ IsCont(s[2]) /\ from_utf8_ok(SubSeq(s, 3, n))
         ELSE IF b >= 224 /\ b <= 239 THEN
              /\ n >= 3 /\ IsCont(s[2]) /\ IsCont(s[3])
              /\ (b = 224 => s[2] >= 160)
              /\ (b = 237 => s[2] <= 159)
              /\ from_utf8_ok(SubSeq(s, 4, n))
         ELSE IF b >= 240 /\ b <= 244 THEN
              /\ n >= 4 /\ IsCont(s[2]) /\ IsCont(s[3]) /\ IsCont(s[4])
              /\ (b = 240 => s[2] >= 144)
              /\ (b = 244 => s[2] <= 143)
              /\ from_utf8_ok(SubSeq(s, 5, n))
         ELSE FALSE

(***************************************************************************)
(* normalize_tick in f32.  A positive f32 is m * 2^e with                  *)
(* 2^23 <= m < 2^24; division and multiplication round to nearest, ties    *)
(* to even; f32::round rounds halves away from zero; `as u16` saturates    *)
(* and sends NaN to 0.                                                     *)
(***************************************************************************)
RECURSIVE Pow2(_)
Pow2(k) == IF k = 0 THEN 1 ELSE 2 * Pow2(k - 1)

RECURSIVE BitLen(_)
BitLen(x) == IF x = 0 THEN 0 ELSE 1 + BitLen(x \div 2)

\* k more quotient bits of r / d, r < d
RECURSIVE LongDiv(_, _, _, _)
LongDiv(r, d, k, q) ==
    IF k = 0 THEN [q |-> q, r |-> r]
    ELSE IF 2 * r >= d THEN LongDiv(2 * r - d, d, k - 1, 2 * q + 1)
         ELSE LongDiv(2 * r, d, k - 1, 2 * q)

\* f32 division of two mantissas in [2^23, 2^24): mantissa and exponent of n / d
f32_div(n, d) ==
    LET bits == IF n >= d THEN 23 ELSE 24
        ld == LongDiv(n % d, d, bits, n \div d)
        up == 2 * ld.r > d \/ (2 * ld.r = d /\ ld.q % 2 = 1)
        q == IF up THEN ld.q + 1 ELSE ld.q
    IN  IF q = Pow2(24) THEN [m |-> Pow2(23), e |-> 1 - bits]
        ELSE [m |-> q, e |-> 0 - bits]

\* 20.0 / (tempo as f32 / 100.0), tempo > 0
f32_ratio(tempo) ==
    LET bt == BitLen(tempo)
        tempo_ticks == f32_div(tempo * Pow2(24 - bt), 100 * Pow2(17))
        e1 == (bt - 24) + 17 + tempo_ticks.e
        r == f32_div(20 * Pow2(19), tempo_ticks.m)
    IN  [m |-> r.m, e |-> (0 - 19) - e1 + r.e]

\* tick as f32 * ratio, tick > 0: the product rounded to 24 significant bits
f32_mul(tick, ratio) ==
    LET h == ratio.m \div 4096
        l == ratio.m % 4096
        H == tick * h + (tick * l) \div 4096
        L == (tick * l) % 4096
        bl == BitLen(H)
        drop == IF bl <= 12 THEN 0 ELSE bl - 12
        q0 == IF drop = 0 THEN H * 4096 + L
              ELSE IF drop <= 12 THEN H * Pow2(12 - drop) + L \div Pow2(drop)
              ELSE H \div Pow2(drop - 12)
        rem == IF drop = 0 THEN 0
               ELSE IF drop <= 12 THEN L % Pow2(drop)
               ELSE (H % Pow2(drop - 12)) * 4096 + L
        half == IF drop = 0 THEN 1 ELSE Pow2(drop - 1)
        up == drop > 0 /\ (rem > half \/ (rem = half /\ q0 % 2 = 1))
    IN  [m |-> IF up THEN q0 + 1 ELSE q0, e |-> drop + ratio.e]

\* f32::round, halves away from zero, of m * 2^e with m <= 2^24, capped at cap
f32_round(x, cap) ==
    IF x.e >= 0 THEN
        IF x.m >= cap \/ x.e >= 16 THEN cap
        ELSE IF x.m * Pow2(x.e) > cap THEN cap ELSE x.m * Pow2(x.e)
    ELSE LET k == 0 - x.e IN
         IF k >= 26 THEN 0
         ELSE LET v == x.m \div Pow2(k) + (IF 2 * (x.m % Pow2(k)) >= Pow2(k) THEN 1 ELSE 0)
              IN IF v > cap THEN cap ELSE v

\* `res.round() as u16`: saturating float-to-int cast
as_u16(x) == f32_round(x, U16 - 1)

\* a cast that wraps modulo 2^16 instead of saturating
as_u16_wrapping(x) == f32_round(x, Pow2(30)) % U16

normalize_tick_wrapping(tempo, tick) ==
    IF tempo = 0 THEN (IF tick = 0 THEN 0 ELSE U16 - 1)
    ELSE IF tick = 0 THEN 0
    ELSE as_u16_wrapping(f32_mul(tick, f32_ratio(tempo)))

normalize_tick(tempo, tick) ==
    IF tempo = 0 THEN (IF tick = 0 THEN 0 ELSE U16 - 1)   \* 20.0/0.0 = inf; 0*inf = NaN -> 0
    ELSE IF tick = 0 THEN 0
    ELSE as_u16(f32_mul(tick, f32_ratio(tempo)))


(***************************************************************************)
(* ReadError and the errors parse() constructs.                            *)
(***************************************************************************)
ReadErrorVariants == {"Argument", "Io", "Utf8", "Json"}

NoError == [variant |-> "none", detail |-> ""]
UnexpectedEof == [variant |-> "Io", detail |-> "UnexpectedEof"]
InvalidUtf8 == [variant |-> "Utf8", detail |-> "invalid utf-8 sequence"]
IoFailure == [variant |-> "Io", detail |-> "Other"]
BadArguments == [variant |-> "Argument", detail |-> "Bad number of arguments"]
NoWorkingDir == [variant |-> "Argument", detail |-> "Current working directory does not exist"]
NonexistentFile == [variant |-> "Argument", detail |-> "Nonexistent file"]
UnsupportedFormat ==
    [variant |-> "Argument",
     detail |-> "Invalid file, or file was made using an unsupported version of NBS"]
UnsupportedVersion ==
    [variant |-> "Argument",
     detail |-> "File was made using an unsupported version of NBS"]

(***************************************************************************)
(* Reads over the byte file f at offset p.  A read yields                  *)
(* [kind, val, pos]: kind "ok" with the value and the new offset, "eof"    *)
(* when the file ends first, "utf8" when a string is not valid UTF-8.      *)
(***************************************************************************)
Ok(v, p) == [kind |-> "ok", val |-> v, pos |-> p]
Eof(f) == [kind |-> "eof", val |-> 0, pos |-> Len(f)]
BadText(p) == [kind |-> "utf8", val |-> 0, pos |-> p]

\* a read that pads a short field with zero bytes instead of failing
read_num_padding(f, p, w) ==
    Ok(from_le_bytes([i \in 1..w |-> IF p + i <= Len(f) THEN f[p + i] ELSE 0]), p + w)

\* read_num!: read_exact of size_of::<T>() bytes, then from_le_bytes
read_num(f, p, w) ==
    IF p + w <= Len(f) THEN Ok(from_le_bytes(SubSeq(f, p + 1, p + w)), p + w)
    ELSE Eof(f)

read_utf8_string(f, p) ==
    LET length == read_num(f, p, 4) IN
    IF length.kind # "ok" THEN length
    ELSE IF length.val = 0 THEN Ok(<< >>, length.pos)
    ELSE IF length.pos + length.val > Len(f) THEN Eof(f)
    ELSE LET string_buffer == SubSeq(f, length.pos + 1, length.pos + length.val) IN
         IF from_utf8_ok(string_buffer) THEN Ok(string_buffer, length.pos + length.val)
         ELSE BadText(length.pos + length.val)

\* fixed-width reads one after the other; the first short read ends them
RECURSIVE read_nums(_, _, _)
read_nums(f, p, widths) ==
    IF widths = << >> THEN Ok(<< >>, p)
    ELSE LET r == read_num(f, p, Head(widths)) IN
         IF r.kind # "ok" THEN r
         ELSE LET rest == read_nums(f, r.pos, Tail(widths)) IN
              IF rest.kind # "ok" THEN rest ELSE Ok(<< r.val >> \o rest.val, rest.pos)

\* the five reads inside the Note literal (lines 260-264): four u8, one i16
read_note_fields(f, p) ==
    LET r == read_nums(f, p, << 1, 1, 1, 1, 2 >>) IN
    IF r.kind # "ok" THEN r
    ELSE Ok([note_block_instrument |-> r.val[1], note_block_key |-> r.val[2],
             note_block_velocity |-> r.val[3], note_block_panning |-> r.val[4],
             note_block_pitch |-> as_i16(r.val[5])], r.pos)

\* the Layer literal (lines 275-280)
read_layer(f, p) ==
    LET name == read_utf8_string(f, p) IN
    IF name.kind # "ok" THEN name
    ELSE LET r == read_nums(f, name.pos, << 1, 1, 1 >>) IN
         IF r.kind # "ok" THEN r
         ELSE Ok([layer_name |-> name.val, layer_lock |-> r.val[1],
                  layer_volume |-> r.val[2], layer_stereo |-> r.val[3]], r.pos)

\* the CustomInstrument literal (lines 286-291)
read_custom_instrument(f, p) ==
    LET name == read_utf8_string(f, p) IN
    IF name.kind # "ok" THEN name
    ELSE LET sound == read_utf8_string(f, name.pos) IN
         IF sound.kind # "ok" THEN sound
         ELSE LET r == read_nums(f, sound.pos, << 1, 1 >>) IN
              IF r.kind # "ok" THEN r
              ELSE Ok([instrument_name |-> name.val, sound_file |-> sound.val,
                       sound_pitch |-> r.val[1], press_key |-> r.val[2]], r.pos)

(***************************************************************************)
(* The header of handle_version_5, in read order (lines 204-228).          *)
(***************************************************************************)
HeaderFields ==
    << [name |-> "vanilla_instrument_count", ty |-> "u8"],
       [name |-> "song_length", ty |-> "u16"],
       [name |-> "layer_count", ty |-> "u16"],
       [name |-> "song_name", ty |-> "str"],
       [name |-> "song_author", ty |-> "str"],
       [name |-> "song_original_author", ty |-> "str"],
       [name |-> "song_description", ty |-> "str"],
       [name |-> "song_tempo", ty |-> "u16"],
       [name |-> "auto_saving", ty |-> "u8"],
       [name |-> "auto_saving_duration", ty |-> "u8"],
       [name |-> "time_signature", ty |-> "u8"],
       [name |-> "minutes_spent", ty |-> "u32"],
       [name |-> "left_clicks", ty |-> "u32"],
       [name |-> "right_clicks", ty |-> "u32"],
       [name |-> "note_blocks_added", ty |-> "u32"],
       [name |-> "note_blocks_removed", ty |-> "u32"],
       [name |-> "schematic_file_name", ty |-> "str"],
       [name |-> "loop_on", ty |-> "u8"],
       [name |-> "max_loop_count", ty |-> "u8"],
       [name |-> "loop_start_tick", ty |-> "u16"] >>

\* mem::size_of::<T>()
size_of(ty) == IF ty = "u8" THEN 1 ELSE IF ty = "u16" THEN 2 ELSE 4

FieldIndex(name) == CHOOSE i \in 1..Len(HeaderFields) : HeaderFields[i].name = name

read_header_field(f, p, fld) ==
    IF fld.ty = "str" THEN read_utf8_string(f, p) ELSE read_num(f, p, size_of(fld.ty))

(***************************************************************************)
(* The decisions of parse() and handle_version_5().                        *)
(***************************************************************************)
\* a dispatch that also accepts later versions
version_supported_or_newer(nbs_version) == nbs_version >= 5

\* match nbs_version { 5 => handle_version_5(reader)?, _ => Err(..) }
version_supported(nbs_version) == nbs_version = 5

\* a sentinel test that also stops on a jump of 1
is_terminator_or_one(jump) == jump <= 1

\* if jumps_to_next_tick == 0 / if jumps_to_next_layer == 0
is_terminator(jump) == jump = 0

\* an addition that sticks at u16::MAX instead of wrapping
saturating_add(a, b) == IF a + b >= U16 THEN U16 - 1 ELSE a + b

\* actual_tick.wrapping_add(..) / actual_layer.wrapping_add(..)
accumulate(acc, jump) == wrapping_add(acc, jump)

\* actual_tick - last_actual_tick on u16: with overflow checks the
\* subtraction panics below zero, without them it wraps
u16_sub(a, b) ==
    IF a >= b THEN {[panic |-> FALSE, val |-> a - b]}
    ELSE {[panic |-> TRUE, val |-> 0], [panic |-> FALSE, val |-> a - b + U16]}

\* every note of the tick gets the delay
delay_tick_every_note(is_first, tempo, delta) == normalize_tick(tempo, delta)

\* match first { true => normalize_tick(song_tempo, delta), false => 0 }
delay_tick_of(is_first, tempo, delta) ==
    IF is_first THEN normalize_tick(tempo, delta) ELSE 0

\* the delay base moves only past ticks that held a note
last_tick_after_nonempty(tick, last_tick, is_first) ==
    IF is_first THEN last_tick ELSE tick

\* last_actual_tick = actual_tick, after the inner loop
last_tick_after(tick, last_tick, is_first) == tick

\* a layer loop that stops one record early
more_layers_short(n_read, layer_count) == n_read + 1 < layer_count

\* for _ in 0..layer_count
more_layers(n_read, layer_count) == n_read < layer_count

\* for _ in 0..custom_instrument_count
more_instruments(n_read, count) == n_read < count


(***************************************************************************)
(* State.                                                                  *)
(***************************************************************************)
VARIABLES
    corpus,            \* the family of input files this run draws from
    run,               \* 1: the file as generated; 2: the rerun on a proper prefix of it
    full_n,            \* bytes the successful decode of run 1 consumed (run 2 only)
    file,              \* the input file's bytes, as far as they are determined
    closed,            \* TRUE once the file is known to end at Len(file)
    pos,               \* bytes consumed from the reader
    pc,                \* position in parse() / handle_version_5()
    status,            \* "running", "ok" (exit 0), "err" (exit 1), "panic"
    error,             \* the ReadError parse() returned
    hdr,               \* header fields read so far, in read order
    actual_tick, last_actual_tick, actual_layer, first, delay_tick,
    notes, layers, custom_instrument_count, custom_instruments,
    json,              \* << >> or << the Data value handed to serde_json >>
    outfile,           \* output.json: "untouched", "created", "partial", "written"
    jumps,             \* history: every tick and layer jump read, with its offset
    note_tick,         \* history: for each note, the outer iteration that emitted it
    tick_no,           \* history: outer iterations entered
    underflowed,       \* history: actual_tick - last_actual_tick went below zero
    nq                 \* a normalize_tick query: [tempo, delta, out]

decoder == << pc, status, error, pos, hdr, actual_tick, last_actual_tick, actual_layer,
              first, delay_tick, notes, layers, custom_instrument_count,
              custom_instruments, json, outfile, jumps, note_tick, tick_no, underflowed >>
input == << corpus, run, full_n, file, closed >>
vars == << input, decoder, nq >>

u16_MAX == U16 - 1

(***************************************************************************)
(* The input files.  A file grows one field (or record) at a time, just    *)
(* when the decoder is about to read it, and may end at any such point.    *)
(***************************************************************************)
StrBytes == {65, 195, 169}     \* "A" and the two bytes of U+00E9

AllStrings(n) == UNION {[1..k -> StrBytes] : k \in 0..n}

encode_string(str) == to_le_bytes(Len(str), 4) \o str

\* corpus "ticks" varies the tick jumps, corpus "layers" the layer jumps
TickBound(c) == IF c = "ticks" THEN MaxTicks ELSE 1
NoteBound(c) == IF c \in {"ticks", "layers"} THEN MaxNotes ELSE 1
TickJumpVals(c) == IF c = "ticks" THEN {1, u16_MAX} ELSE {1}
LayerJumpVals(c) == IF c = "layers" THEN {1, u16_MAX} ELSE {1}

ScalarVals(c, name) ==
    CASE name = "vanilla_instrument_count" -> {16}
      [] name = "song_length" -> IF c = "header" THEN {0, 3} ELSE {1}
      [] name = "layer_count" ->
            IF c = "header" THEN 0..MaxLayers ELSE IF c = "trunc" THEN {0, 1} ELSE {1}
      [] name = "song_tempo" -> IF c = "header" THEN {0, 288, 1000} ELSE {1000}
      [] name = "auto_saving" -> {1}
      [] name = "auto_saving_duration" -> {10}
      [] name = "time_signature" -> {4}
      [] name = "minutes_spent" -> {258}
      [] name = "left_clicks" -> {65537}
      [] name = "right_clicks" -> {16777216}
      [] name = "note_blocks_added" -> {7}
      [] name = "note_blocks_removed" -> {0}
      [] name = "loop_on" -> {1}
      [] name = "max_loop_count" -> {0}
      [] name = "loop_start_tick" -> {513}

StringVals(c, name) ==
    CASE name = "song_name" ->
            IF c = "header" THEN AllStrings(MaxStrLen)
            ELSE IF c = "trunc" THEN {<< 65, 195, 169 >>} ELSE {<< >>}
      [] name = "song_author" -> {<< 65 >>}
      [] OTHER -> {<< >>}

FieldChunks(c, fld) ==
    IF fld.ty = "str" THEN {encode_string(str) : str \in StringVals(c, fld.name)}
    ELSE {to_le_bytes(v, size_of(fld.ty)) : v \in ScalarVals(c, fld.name)}

NoteRecord == << 3, 45, 100, 100, 254, 255 >>   \* pitch bytes FE FF: -2

LayerNames(c) == IF c = "header" THEN {<< >>, << 76 >>} ELSE {<< 76 >>}
LayerChunks(c) == {encode_string(n) \o << 0, 100, 100 >> : n \in LayerNames(c)}

InstrumentCounts(c) == 0..MaxInstruments
InstrumentChunks == {encode_string(<< 72 >>) \o encode_string(<< >>) \o << 45, 1 >>}

Field(name) == hdr[FieldIndex(name)]
NotesInTick == Cardinality({i \in 1..Len(note_tick) : note_tick[i] = tick_no})

ReadPcs == {"proto", "version", "header", "tick", "layer", "note", "layers", "instruments"}

\* the decoder's next step is a read
ReadPending ==
    /\ status = "running"
    /\ pc \in ReadPcs
    /\ pc = "instruments" =>
          more_instruments(Len(custom_instruments), custom_instrument_count)

Chunks ==
    CASE pc = "proto" -> {to_le_bytes(v, 2) : v \in {0, 1}}
      [] pc = "version" -> {to_le_bytes(v, 1) : v \in {3, 5, 6}}
      [] pc = "header" -> FieldChunks(corpus, HeaderFields[Len(hdr) + 1])
      [] pc = "tick" ->
            {to_le_bytes(0, 2)} \cup
            (IF tick_no < TickBound(corpus)
             THEN {to_le_bytes(j, 2) : j \in TickJumpVals(corpus)} ELSE {})
      [] pc = "layer" ->
            {to_le_bytes(0, 2)} \cup
            (IF NotesInTick < NoteBound(corpus)
             THEN {to_le_bytes(j, 2) : j \in LayerJumpVals(corpus)} ELSE {})
      [] pc = "note" -> {NoteRecord}
      [] pc = "layers" ->
            IF more_layers(Len(layers), Field("layer_count")) THEN LayerChunks(corpus)
            ELSE {to_le_bytes(v, 1) : v \in InstrumentCounts(corpus)}
      [] pc = "instruments" -> InstrumentChunks

\* the file holds the next field
Extend ==
    /\ ReadPending /\ ~closed /\ pos = Len(file)
    /\ \E chunk \in Chunks : file' = file \o chunk
    /\ UNCHANGED << corpus, run, full_n, closed, decoder, nq >>

\* the file ends here
Close ==
    /\ ReadPending /\ ~closed /\ pos = Len(file)
    /\ closed' = TRUE
    /\ UNCHANGED << corpus, run, full_n, file, decoder, nq >>

\* a read returns once the file holds bytes for it or is known to have ended
Readable == ReadPending /\ (pos < Len(file) \/ closed)


(***************************************************************************)
(* Initial state: the process has started, nothing is read.                *)
(***************************************************************************)
IdleQuery == [tempo |-> 0, delta |-> 0, out |-> 0 - 1]

DecoderStart(at) ==
    /\ pc = at /\ status = "running" /\ error = NoError /\ pos = 0
    /\ hdr = << >>
    /\ actual_tick = u16_MAX /\ last_actual_tick = 0
    /\ actual_layer = u16_MAX /\ first = TRUE /\ delay_tick = 0
    /\ notes = << >> /\ layers = << >>
    /\ custom_instrument_count = 0 /\ custom_instruments = << >>
    /\ json = << >> /\ outfile = "untouched"
    /\ jumps = << >> /\ note_tick = << >> /\ tick_no = 0 /\ underflowed = FALSE

InitFile(c) ==
    /\ corpus = c /\ run = 1 /\ full_n = 0 /\ file = << >> /\ closed = FALSE

Init ==
    /\ \E c \in {"header", "ticks", "layers"} : InitFile(c)
    /\ DecoderStart("args")
    /\ nq = IdleQuery

Fail(e) == status' = "err" /\ error' = e

ReadFailure(r) == IF r.kind = "eof" THEN UnexpectedEof ELSE InvalidUtf8

(***************************************************************************)
(* parse(), lines 159-177: arguments, working directory, input file.       *)
(***************************************************************************)
CheckArgs ==
    /\ pc = "args" /\ status = "running"
    /\ \E argc \in 1..3 :
          IF argc # 2 THEN Fail(BadArguments) /\ pc' = pc
          ELSE pc' = "cwd" /\ UNCHANGED << status, error >>
    /\ UNCHANGED << input, nq, pos, hdr, actual_tick, last_actual_tick, actual_layer,
                    first, delay_tick, notes, layers, custom_instrument_count,
                    custom_instruments, json, outfile, jumps, note_tick, tick_no,
                    underflowed >>

CurrentDir ==
    /\ pc = "cwd" /\ status = "running"
    /\ \E outcome \in {"ok", "io", "gone"} :
          CASE outcome = "ok" -> pc' = "exists" /\ UNCHANGED << status, error >>
            [] outcome = "io" -> Fail(IoFailure) /\ pc' = pc
            [] outcome = "gone" -> Fail(NoWorkingDir) /\ pc' = pc
    /\ UNCHANGED << input, nq, pos, hdr, actual_tick, last_actual_tick, actual_layer,
                    first, delay_tick, notes, layers, custom_instrument_count,
                    custom_instruments, json, outfile, jumps, note_tick, tick_no,
                    underflowed >>

CheckExists ==
    /\ pc = "exists" /\ status = "running"
    /\ \E exists \in BOOLEAN :
          IF exists THEN pc' = "open" /\ UNCHANGED << status, error >>
          ELSE Fail(NonexistentFile) /\ pc' = pc
    /\ UNCHANGED << input, nq, pos, hdr, actual_tick, last_actual_tick, actual_layer,
                    first, delay_tick, notes, layers, custom_instrument_count,
                    custom_instruments, json, outfile, jumps, note_tick, tick_no,
                    underflowed >>

OpenFile ==
    /\ pc = "open" /\ status = "running"
    /\ \E opened \in BOOLEAN :
          IF opened THEN pc' = "proto" /\ UNCHANGED << status, error >>
          ELSE Fail(IoFailure) /\ pc' = pc
    /\ UNCHANGED << input, nq, pos, hdr, actual_tick, last_actual_tick, actual_layer,
                    first, delay_tick, notes, layers, custom_instrument_count,
                    custom_instruments, json, outfile, jumps, note_tick, tick_no,
                    underflowed >>

(***************************************************************************)
(* parse(), lines 179-188: the format dispatch.                            *)
(***************************************************************************)
ReadProto ==
    /\ pc = "proto" /\ Readable
    /\ LET proto == read_num(file, pos, 2) IN
       /\ pos' = proto.pos
       /\ IF proto.kind # "ok" THEN Fail(UnexpectedEof) /\ pc' = pc
          ELSE IF proto.val # 0 THEN Fail(UnsupportedFormat) /\ pc' = pc
          ELSE pc' = "version" /\ UNCHANGED << status, error >>
    /\ UNCHANGED << input, nq, hdr, actual_tick, last_actual_tick, actual_layer,
                    first, delay_tick, notes, layers, custom_instrument_count,
                    custom_instruments, json, outfile, jumps, note_tick, tick_no,
                    underflowed >>

ReadVersion ==
    /\ pc = "version" /\ Readable
    /\ LET nbs_version == read_num(file, pos, 1) IN
       /\ pos' = nbs_version.pos
       /\ IF nbs_version.kind # "ok" THEN Fail(UnexpectedEof) /\ pc' = pc
          ELSE IF version_supported(nbs_version.val)
               THEN pc' = "header" /\ UNCHANGED << status, error >>
          ELSE Fail(UnsupportedVersion) /\ pc' = pc
    /\ UNCHANGED << input, nq, hdr, actual_tick, last_actual_tick, actual_layer,
                    first, delay_tick, notes, layers, custom_instrument_count,
                    custom_instruments, json, outfile, jumps, note_tick, tick_no,
                    underflowed >>

(***************************************************************************)
(* handle_version_5(), lines 204-228: the header, one field per step.      *)
(***************************************************************************)
ReadHeaderField ==
    /\ pc = "header" /\ Readable
    /\ LET r == read_header_field(file, pos, HeaderFields[Len(hdr) + 1]) IN
       /\ pos' = r.pos
       /\ IF r.kind # "ok" THEN Fail(ReadFailure(r)) /\ UNCHANGED << pc, hdr >>
          ELSE /\ hdr' = Append(hdr, r.val)
               /\ pc' = IF Len(hdr) + 1 = Len(HeaderFields) THEN "tick" ELSE "header"
               /\ UNCHANGED << status, error >>
    /\ UNCHANGED << input, nq, actual_tick, last_actual_tick, actual_layer,
                    first, delay_tick, notes, layers, custom_instrument_count,
                    custom_instruments, json, outfile, jumps, note_tick, tick_no,
                    underflowed >>

(***************************************************************************)
(* handle_version_5(), lines 232-271: the note table.                      *)
(***************************************************************************)
Jump(kind, r) == [kind |-> kind, jump |-> r.val, at |-> pos, tick |-> tick_no]

ReadTickJump ==
    /\ pc = "tick" /\ Readable
    /\ LET jumps_to_next_tick == read_num(file, pos, 2) IN
       /\ pos' = jumps_to_next_tick.pos
       /\ IF jumps_to_next_tick.kind # "ok"
          THEN /\ Fail(UnexpectedEof)
               /\ UNCHANGED << pc, actual_tick, actual_layer, first, jumps, tick_no >>
          ELSE /\ jumps' = Append(jumps, Jump("tick", jumps_to_next_tick))
               /\ UNCHANGED << status, error >>
               /\ IF is_terminator(jumps_to_next_tick.val)
                  THEN /\ pc' = "layers"
                       /\ UNCHANGED << actual_tick, actual_layer, first, tick_no >>
                  ELSE /\ actual_tick' = accumulate(actual_tick, jumps_to_next_tick.val)
                       /\ actual_layer' = u16_MAX
                       /\ first' = TRUE
                       /\ tick_no' = tick_no + 1
                       /\ pc' = "layer"
    /\ UNCHANGED << input, nq, hdr, last_actual_tick, delay_tick, notes, layers,
                    custom_instrument_count, custom_instruments, json, outfile,
                    note_tick, underflowed >>

ReadLayerJump ==
    /\ pc = "layer" /\ Readable
    /\ LET jumps_to_next_layer == read_num(file, pos, 2) IN
       /\ pos' = jumps_to_next_layer.pos
       /\ IF jumps_to_next_layer.kind # "ok"
          THEN /\ Fail(UnexpectedEof)
               /\ UNCHANGED << pc, last_actual_tick, actual_layer, delay_tick, jumps,
                               underflowed >>
          ELSE /\ jumps' = Append(jumps, Jump("layer", jumps_to_next_layer))
               /\ error' = error
               /\ IF is_terminator(jumps_to_next_layer.val)
                  THEN /\ last_actual_tick' =
                              last_tick_after(actual_tick, last_actual_tick, first)
                       /\ pc' = "tick"
                       /\ UNCHANGED << status, actual_layer, delay_tick, underflowed >>
                  ELSE /\ actual_layer' = accumulate(actual_layer, jumps_to_next_layer.val)
                       /\ UNCHANGED last_actual_tick
                       /\ IF first
                          THEN \E d \in u16_sub(actual_tick, last_actual_tick) :
                                /\ underflowed' =
                                      (underflowed \/ actual_tick < last_actual_tick)
                                /\ IF d.panic
                                   THEN status' = "panic" /\ UNCHANGED << pc, delay_tick >>
                                   ELSE /\ delay_tick' =
                                             delay_tick_of(TRUE, Field("song_tempo"), d.val)
                                        /\ pc' = "note"
                                        /\ UNCHANGED status
                          ELSE /\ delay_tick' =
                                    delay_tick_of(FALSE, Field("song_tempo"),
                                        (actual_tick + U16 - last_actual_tick) % U16)
                               /\ pc' = "note"
                               /\ UNCHANGED << status, underflowed >>
    /\ UNCHANGED << input, nq, hdr, actual_tick, first, notes, layers,
                    custom_instrument_count, custom_instruments, json, outfile,
                    note_tick, tick_no >>

ReadNoteRecord ==
    /\ pc = "note" /\ Readable
    /\ LET r == read_note_fields(file, pos) IN
       /\ pos' = r.pos
       /\ IF r.kind # "ok"
          THEN Fail(UnexpectedEof) /\ UNCHANGED << pc, notes, first, note_tick >>
          ELSE /\ notes' = Append(notes,
                      [delay_ticks |-> delay_tick,
                       layer |-> actual_layer,
                       note_block_instrument |-> r.val.note_block_instrument,
                       note_block_key |-> r.val.note_block_key,
                       note_block_velocity |-> r.val.note_block_velocity,
                       note_block_panning |-> r.val.note_block_panning,
                       note_block_pitch |-> r.val.note_block_pitch])
               /\ note_tick' = Append(note_tick, tick_no)
               /\ first' = FALSE
               /\ pc' = "layer"
               /\ UNCHANGED << status, error >>
    /\ UNCHANGED << input, nq, hdr, actual_tick, last_actual_tick, actual_layer,
                    delay_tick, layers, custom_instrument_count, custom_instruments,
                    json, outfile, jumps, tick_no, underflowed >>


(***************************************************************************)
(* handle_version_5(), lines 273-292: layers and custom instruments.       *)
(***************************************************************************)
ReadLayer ==
    /\ pc = "layers" /\ Readable
    /\ more_layers(Len(layers), Field("layer_count"))
    /\ LET r == read_layer(file, pos) IN
       /\ pos' = r.pos
       /\ IF r.kind # "ok" THEN Fail(ReadFailure(r)) /\ UNCHANGED layers
          ELSE layers' = Append(layers, r.val) /\ UNCHANGED << status, error >>
    /\ UNCHANGED << input, nq, pc, hdr, actual_tick, last_actual_tick, actual_layer,
                    first, delay_tick, notes, custom_instrument_count,
                    custom_instruments, json, outfile, jumps, note_tick, tick_no,
                    underflowed >>

ReadInstrumentCount ==
    /\ pc = "layers" /\ Readable
    /\ ~more_layers(Len(layers), Field("layer_count"))
    /\ LET r == read_num(file, pos, 1) IN
       /\ pos' = r.pos
       /\ IF r.kind # "ok"
          THEN Fail(UnexpectedEof) /\ UNCHANGED << pc, custom_instrument_count >>
          ELSE /\ custom_instrument_count' = r.val
               /\ pc' = "instruments"
               /\ UNCHANGED << status, error >>
    /\ UNCHANGED << input, nq, hdr, actual_tick, last_actual_tick, actual_layer,
                    first, delay_tick, notes, layers, custom_instruments, json,
                    outfile, jumps, note_tick, tick_no, underflowed >>

ReadCustomInstrument ==
    /\ pc = "instruments" /\ Readable
    /\ more_instruments(Len(custom_instruments), custom_instrument_count)
    /\ LET r == read_custom_instrument(file, pos) IN
       /\ pos' = r.pos
       /\ IF r.kind # "ok" THEN Fail(ReadFailure(r)) /\ UNCHANGED custom_instruments
          ELSE /\ custom_instruments' = Append(custom_instruments, r.val)
               /\ UNCHANGED << status, error >>
    /\ UNCHANGED << input, nq, pc, hdr, actual_tick, last_actual_tick, actual_layer,
                    first, delay_tick, notes, layers, custom_instrument_count,
                    json, outfile, jumps, note_tick, tick_no, underflowed >>

\* lines 294-319: the Data value; serde_json::to_string of it does not fail
Data ==
    [version |-> 5,
     vanilla_instrument_count |-> Field("vanilla_instrument_count"),
     song_length |-> Field("song_length"),
     layer_count |-> Field("layer_count"),
     song_name |-> Field("song_name"),
     song_author |-> Field("song_author"),
     song_original_author |-> Field("song_original_author"),
     song_description |-> Field("song_description"),
     song_tempo |-> Field("song_tempo"),
     auto_saving |-> Field("auto_saving"),
     auto_saving_duration |-> Field("auto_saving_duration"),
     time_signature |-> Field("time_signature"),
     minutes_spent |-> Field("minutes_spent"),
     left_clicks |-> Field("left_clicks"),
     right_clicks |-> Field("right_clicks"),
     note_blocks_added |-> Field("note_blocks_added"),
     note_blocks_removed |-> Field("note_blocks_removed"),
     schematic_file_name |-> Field("schematic_file_name"),
     loop_on |-> Field("loop_on"),
     max_loop_count |-> Field("max_loop_count"),
     loop_start_tick |-> Field("loop_start_tick"),
     notes |-> notes,
     layers |-> layers,
     custom_instruments |-> custom_instruments]

Assemble ==
    /\ pc = "instruments" /\ status = "running"
    /\ ~more_instruments(Len(custom_instruments), custom_instrument_count)
    /\ json' = << Data >>
    /\ pc' = "create"
    /\ UNCHANGED << input, nq, status, error, pos, hdr, actual_tick, last_actual_tick,
                    actual_layer, first, delay_tick, notes, layers,
                    custom_instrument_count, custom_instruments, outfile, jumps,
                    note_tick, tick_no, underflowed >>

(***************************************************************************)
(* parse(), lines 190-194: output.json.  File::create makes or truncates   *)
(* the file; write_all may fail after any part of the text is written.     *)
(* target_dir names a regular file that was opened and decoded, so         *)
(* parent() is Some and "Missing parent directory" does not arise here.    *)
(***************************************************************************)
CreateOutput ==
    /\ pc = "create" /\ status = "running"
    /\ \E created \in BOOLEAN :
          IF created THEN outfile' = "created" /\ pc' = "write" /\ UNCHANGED << status, error >>
          ELSE Fail(IoFailure) /\ UNCHANGED << pc, outfile >>
    /\ UNCHANGED << input, nq, pos, hdr, actual_tick, last_actual_tick, actual_layer,
                    first, delay_tick, notes, layers, custom_instrument_count,
                    custom_instruments, json, jumps, note_tick, tick_no, underflowed >>

WriteOutput ==
    /\ pc = "write" /\ status = "running"
    /\ \/ outfile' = "written" /\ status' = "ok" /\ UNCHANGED error
       \/ \E left \in {"created", "partial"} : outfile' = left /\ Fail(IoFailure)
    /\ pc' = "done"
    /\ UNCHANGED << input, nq, pos, hdr, actual_tick, last_actual_tick, actual_layer,
                    first, delay_tick, notes, layers, custom_instrument_count,
                    custom_instruments, json, jumps, note_tick, tick_no, underflowed >>

(***************************************************************************)
(* The program on the files of the "header", "ticks" and "layers" corpora. *)
(***************************************************************************)
Next ==
    \/ Extend \/ Close
    \/ CheckArgs \/ CurrentDir \/ CheckExists \/ OpenFile
    \/ ReadProto \/ ReadVersion \/ ReadHeaderField
    \/ ReadTickJump \/ ReadLayerJump \/ ReadNoteRecord
    \/ ReadLayer \/ ReadInstrumentCount \/ ReadCustomInstrument
    \/ Assemble \/ CreateOutput \/ WriteOutput

Spec == Init /\ [][Next]_vars

(***************************************************************************)
(* The decoder rerun on a proper prefix of a file it has decoded.          *)
(***************************************************************************)
Truncate ==
    /\ run = 1 /\ pc = "create" /\ status = "running"
    /\ \E m \in 0..((IF pos < Len(file) THEN pos ELSE Len(file)) - 1) :
          /\ file' = SubSeq(file, 1, m)
          /\ closed' = TRUE
          /\ run' = 2
          /\ full_n' = pos
    /\ pc' = "proto" /\ status' = "running" /\ error' = NoError /\ pos' = 0
    /\ hdr' = << >>
    /\ actual_tick' = u16_MAX /\ last_actual_tick' = 0
    /\ actual_layer' = u16_MAX /\ first' = TRUE /\ delay_tick' = 0
    /\ notes' = << >> /\ layers' = << >>
    /\ custom_instrument_count' = 0 /\ custom_instruments' = << >>
    /\ json' = << >> /\ outfile' = "untouched"
    /\ jumps' = << >> /\ note_tick' = << >> /\ tick_no' = 0 /\ underflowed' = FALSE
    /\ UNCHANGED << corpus, nq >>

InitTrunc ==
    /\ InitFile("trunc")
    /\ DecoderStart("proto")
    /\ nq = IdleQuery

NextTrunc ==
    \/ Extend \/ Close
    \/ ReadProto \/ ReadVersion \/ ReadHeaderField
    \/ ReadTickJump \/ ReadLayerJump \/ ReadNoteRecord
    \/ ReadLayer \/ ReadInstrumentCount \/ ReadCustomInstrument
    \/ Assemble
    \/ Truncate

SpecTrunc == InitTrunc /\ [][NextTrunc]_vars

(***************************************************************************)
(* normalize_tick applied to tabulated inputs.                             *)
(***************************************************************************)
NormTempos == (1..NormSmall) \cup {32, 100, 103, 288, 480, 1000, 2000, 4096, u16_MAX}
NormDeltas == (0..NormSmall) \cup {27, 100, 3187, 32768, 40000, u16_MAX}

InitNorm ==
    /\ InitFile("none")
    /\ DecoderStart("idle")
    /\ \E t \in NormTempos, d \in NormDeltas : nq = [tempo |-> t, delta |-> d, out |-> 0 - 1]

ApplyNormalize ==
    /\ nq.out < 0
    /\ nq' = [nq EXCEPT !.out = normalize_tick(nq.tempo, nq.delta)]
    /\ UNCHANGED << input, decoder >>

SpecNorm == InitNorm /\ [][ApplyNormalize]_vars


(***************************************************************************)
(* What the history says the decoder must have computed.                   *)
(***************************************************************************)
InTable == {"tick", "layer", "note"}
Decoded == {"create", "write", "done"}            \* handle_version_5 returned Ok
PostTable == {"layers", "instruments"} \cup Decoded
InDecoder == {"header"} \cup InTable \cup PostTable

IsJump(i, kind) == jumps[i].kind = kind
NonzeroLayerJumps == {i \in 1..Len(jumps) : IsJump(i, "layer") /\ jumps[i].jump # 0}

RECURSIVE SumJumps(_)
SumJumps(S) ==
    IF S = {} THEN 0
    ELSE LET i == CHOOSE x \in S : TRUE IN jumps[i].jump + SumJumps(S \ {i})

\* absolute tick of the k-th outer iteration: its jumps summed, less one, mod 2^16
AbsTick(k) ==
    (SumJumps({i \in 1..Len(jumps) : IsJump(i, "tick") /\ jumps[i].tick < k}) + U16 - 1) % U16

\* absolute layer after the layer jump at trace index n
AbsLayer(n) ==
    (SumJumps({i \in 1..n : IsJump(i, "layer") /\ jumps[i].tick = jumps[n].tick}) + U16 - 1) % U16

\* trace index of the layer jump that announced note k
NoteJump(k) ==
    CHOOSE i \in NonzeroLayerJumps : Cardinality({j \in NonzeroLayerJumps : j <= i}) = k

FirstOfTick(i) == i = 1 \/ note_tick[i] # note_tick[i - 1]
PrevTick(k) == IF k <= 1 THEN 0 ELSE AbsTick(k - 1)
TickDelta(k) == (AbsTick(k) + U16 - PrevTick(k)) % U16

(***************************************************************************)
(* C1: the tick accumulator always equals (sum of the tick jumps read so   *)
(* far - 1) mod 65536, every emitted note's layer (and the layer pending   *)
(* for the note being read) equals (sum of the layer jumps read so far in  *)
(* its tick - 1) mod 65536, and a tick jump of 1 followed by a layer jump  *)
(* of 1 gives tick 0, layer 0.                                             *)
(***************************************************************************)
C1_WraparoundSeeding ==
    /\ tick_no >= 1 => actual_tick = AbsTick(tick_no)
    /\ \A k \in 1..Len(notes) : notes[k].layer = AbsLayer(NoteJump(k))
    /\ pc = "note" => actual_layer = AbsLayer(Len(jumps))
    /\ (Len(notes) >= 1 /\ jumps[1].jump = 1 /\ jumps[2].jump = 1 /\ tick_no = 1)
          => (actual_tick = 0 /\ notes[1].layer = 0)

C1_Witness ==
    /\ Len(notes) = 2 /\ tick_no = 1
    /\ jumps[1].jump = 1 /\ jumps[2].jump = 1 /\ jumps[3].jump = u16_MAX
    /\ actual_tick = 0 /\ notes[1].layer = 0 /\ notes[2].layer = u16_MAX

(***************************************************************************)
(* C2: the outer loop is left exactly at the first tick jump 0 and an      *)
(* inner loop exactly at the first layer jump 0, whatever song_length and  *)
(* layer_count say; once the table is decoded there are as many notes as   *)
(* nonzero layer jumps; a layer jump 0 right after a nonzero tick jump     *)
(* gives that tick no note and the next tick jump is read 2 bytes later.   *)
(***************************************************************************)
C2_SentinelTermination ==
    /\ pc \in InTable =>
          \A i \in 1..Len(jumps) : IsJump(i, "tick") => jumps[i].jump # 0
    /\ pc \in PostTable =>
          /\ Len(jumps) >= 1
          /\ IsJump(Len(jumps), "tick") /\ jumps[Len(jumps)].jump = 0
          /\ \A i \in 1..(Len(jumps) - 1) : IsJump(i, "tick") => jumps[i].jump # 0
          /\ Len(notes) = Cardinality(NonzeroLayerJumps)
    /\ \A i \in 1..(Len(jumps) - 1) :
          IF IsJump(i, "layer") /\ jumps[i].jump = 0
          THEN IsJump(i + 1, "tick")
          ELSE IsJump(i + 1, "layer")
    /\ (Len(jumps) >= 1 /\ status = "running" /\ pc \in InTable) =>
          LET last == jumps[Len(jumps)] IN
          IF last.kind = "layer" /\ last.jump = 0 THEN pc = "tick"
          ELSE IF last.kind = "layer" THEN pc = "note" \/ pc = "layer"
          ELSE pc = "layer"
    /\ \A i \in 1..(Len(jumps) - 1) :
          (IsJump(i, "tick") /\ IsJump(i + 1, "layer") /\ jumps[i + 1].jump = 0) =>
             /\ jumps[i + 1].at = jumps[i].at + 2
             /\ \A k \in 1..Len(note_tick) : note_tick[k] # jumps[i + 1].tick
             /\ i + 2 <= Len(jumps) => jumps[i + 2].at = jumps[i + 1].at + 2

C2_Witness ==
    /\ pc = "create"
    /\ tick_no > Field("song_length")
    /\ \E k \in 1..tick_no : \A n \in 1..Len(note_tick) : note_tick[n] # k
    /\ \E k \in 1..tick_no :
          Cardinality({n \in 1..Len(note_tick) : note_tick[n] = k}) > Field("layer_count")
    /\ Len(notes) = Cardinality(NonzeroLayerJumps)

Marker == from_le_bytes(SubSeq(file, 1, 2))

\* the header decoder is entered only behind marker 0 and version 5; a nonzero
\* marker ends the run with the format error after 2 bytes, a version other
\* than 5 with the version error after 3 bytes, nothing further being read
Dispatch ==
    /\ pc \in InDecoder => (Len(file) >= 3 /\ Marker = 0 /\ file[3] = 5)
    /\ (status # "running" /\ Len(file) >= 2 /\ Marker # 0) =>
          (status = "err" /\ error = UnsupportedFormat /\ pos = 2 /\ Len(file) = 2)
    /\ (status # "running" /\ Len(file) >= 3 /\ Marker = 0 /\ file[3] # 5) =>
          (status = "err" /\ error = UnsupportedVersion /\ pos = 3 /\ Len(file) = 3)

(***************************************************************************)
(* C4 (as the code has it): the header decoder is entered only behind      *)
(* marker 0 and version 5; a nonzero marker fails with the format error    *)
(* after exactly 2 bytes, a version other than 5 with the version error    *)
(* after exactly 3 bytes and no further read; the two errors are the same  *)
(* ReadError variant (Argument) and differ in their message.               *)
(***************************************************************************)
C4_ClosedDispatch ==
    /\ Dispatch
    /\ (status = "err" /\ error = UnsupportedVersion) =>
          /\ error.variant = UnsupportedFormat.variant
          /\ error.detail # UnsupportedFormat.detail

(***************************************************************************)
(* C4 (as stated): the same dispatch, the version error being of a kind    *)
(* distinct from the format error's.                                       *)
(***************************************************************************)
C4_DistinctKinds ==
    /\ Dispatch
    /\ (status = "err" /\ error = UnsupportedVersion) =>
          error.variant # UnsupportedFormat.variant

C4_Witness ==
    /\ status = "err" /\ error = UnsupportedVersion
    /\ pos = 3 /\ Len(file) = 3 /\ Marker = 0 /\ file[3] = 6

(***************************************************************************)
(* C5: rerun on any proper prefix of a file it decoded, the decoder        *)
(* always has a further read to make until it fails, fails with            *)
(* UnexpectedEof and with no other error, and never builds a document.     *)
(***************************************************************************)
C5_TruncationDetected ==
    run = 2 =>
        /\ Len(file) < full_n
        /\ json = << >> /\ pc \notin Decoded
        /\ status = "running" => Readable
        /\ status # "running" => (status = "err" /\ error = UnexpectedEof)

\* the cut falls inside the payload of song_name (offsets 12..14)
C5_Witness ==
    /\ run = 2 /\ status = "err" /\ error = UnexpectedEof
    /\ pc = "header" /\ Len(hdr) = 3 /\ Len(file) = 13

(***************************************************************************)
(* C6: a run that ends in an error has not touched output.json, and        *)
(* output.json is touched only after the whole document is decoded.        *)
(***************************************************************************)
C6_NoPartialOutput ==
    /\ status = "err" => outfile = "untouched"
    /\ outfile # "untouched" => (json # << >> /\ pc \in Decoded)

\* delta * 2000 / tempo, halves rounded away from zero, clamped to 0..65535
ExactNormalize(tempo, delta) ==
    LET q == (2 * (delta * 2000) + tempo) \div (2 * tempo)
    IN  IF q > u16_MAX THEN u16_MAX ELSE q

(***************************************************************************)
(* C7 (as stated): for tempo > 0, normalize_tick(tempo, delta) is          *)
(* delta * 2000 / tempo rounded to the nearest integer, halves away from   *)
(* zero, clamped to 0..65535.                                              *)
(***************************************************************************)
C7_ExactRounding ==
    (nq.out >= 0 /\ nq.tempo > 0) => nq.out = ExactNormalize(nq.tempo, nq.delta)

(***************************************************************************)
(* C7 (as the code has it): for tempo > 0, normalize_tick(tempo, delta),   *)
(* evaluated in f32, is a value of 0..65535 within 1 of                    *)
(* delta * 2000 / tempo rounded halves away from zero and clamped (so it   *)
(* is clamped, never wrapped), and is 20 for tempo 1000, delta 10.         *)
(***************************************************************************)
C7_SinglePrecision ==
    (nq.out >= 0 /\ nq.tempo > 0) =>
        /\ nq.out \in 0..u16_MAX
        /\ nq.out - ExactNormalize(nq.tempo, nq.delta) \in {0 - 1, 0, 1}
        /\ (nq.tempo = 1000 /\ nq.delta = 10) => nq.out = 20

C7_Witness == nq.tempo = 1000 /\ nq.delta = 10 /\ nq.out = 20

\* k Layer / CustomInstrument records parsed from the stream at offset p
RECURSIVE StreamLayers(_, _)
StreamLayers(p, k) ==
    IF k = 0 THEN [vals |-> << >>, pos |-> p]
    ELSE LET r == read_layer(file, p)
             rest == StreamLayers(r.pos, k - 1)
         IN  [vals |-> << r.val >> \o rest.vals, pos |-> rest.pos]

RECURSIVE StreamInstruments(_, _)
StreamInstruments(p, k) ==
    IF k = 0 THEN [vals |-> << >>, pos |-> p]
    ELSE LET r == read_custom_instrument(file, p)
             rest == StreamInstruments(r.pos, k - 1)
         IN  [vals |-> << r.val >> \o rest.vals, pos |-> rest.pos]

TableEnd == jumps[Len(jumps)].at + 2

(***************************************************************************)
(* C8: a decoded file yielded exactly layer_count Layer records and then   *)
(* exactly custom_instrument_count CustomInstrument records, the records   *)
(* being those of the stream in stream order, also when notes name layers  *)
(* at or beyond layer_count.                                               *)
(***************************************************************************)
C8_LayerAndInstrumentCounts ==
    pc \in Decoded =>
        LET ls == StreamLayers(TableEnd, Field("layer_count"))
            is == StreamInstruments(ls.pos + 1, file[ls.pos + 1])
        IN  /\ Len(layers) = Field("layer_count")
            /\ layers = ls.vals
            /\ custom_instrument_count = file[ls.pos + 1]
            /\ Len(custom_instruments) = custom_instrument_count
            /\ custom_instruments = is.vals
            /\ pos = is.pos
            /\ json[1].layers = layers /\ json[1].custom_instruments = custom_instruments

C8_Witness ==
    /\ pc = "create"
    /\ Field("layer_count") = 1 /\ Len(layers) = 1
    /\ custom_instrument_count = 1 /\ Len(custom_instruments) = 1
    /\ \E k \in 1..Len(notes) : notes[k].layer >= Field("layer_count")

(***************************************************************************)
(* C9: the tick delta never goes below zero and never aborts the decode.   *)
(***************************************************************************)
C9_GuardedTickDelta == ~underflowed /\ status # "panic"

(***************************************************************************)
(* C10: the delay base is 0 before the first tick and, after every outer   *)
(* iteration (empty or not), that iteration's absolute tick; the first     *)
(* note of a tick carries normalize_tick(tempo, absolute tick - absolute   *)
(* tick of the iteration before it, on 16 bits), 0 standing for the        *)
(* iteration before the first.                                             *)
(***************************************************************************)
C10_DelayBase ==
    /\ pc = "tick" => last_actual_tick = (IF tick_no = 0 THEN 0 ELSE AbsTick(tick_no))
    /\ pc \in {"layer", "note"} => last_actual_tick = PrevTick(tick_no)
    /\ \A i \in 1..Len(notes) :
          FirstOfTick(i) =>
              notes[i].delay_ticks =
                  normalize_tick(Field("song_tempo"), TickDelta(note_tick[i]))

\* an empty first tick, then a tick whose first note is timed from the empty one
C10_Witness ==
    /\ Len(notes) >= 1 /\ note_tick[1] = 2
    /\ AbsTick(1) = u16_MAX - 1 /\ AbsTick(2) = u16_MAX
    /\ notes[1].delay_ticks = normalize_tick(Field("song_tempo"), 1)
    /\ notes[1].delay_ticks # normalize_tick(Field("song_tempo"), AbsTick(2))

====
